---- MODULE Spec2Model ----
(***************************************************************************)
(* Model of the WhatsApp chatbot backend: the webhook ingestion handler    *)
(* (api/main.py), the background reply task it schedules, the Celery reply *)
(* task (api/tasks.py) and the RAG retrieval functions (api/ai.py).        *)
(*                                                                         *)
(* The relational store is the set `messages` of rows plus the sequence    *)
(* value `nextMsgId`; every SQL statement is one atomic step, which is the *)
(* granularity at which request handlers running in different server       *)
(* processes, background tasks and workers interleave.                     *)
(***************************************************************************)
EXTENDS Integers, Sequences, FiniteSets, TLC

None == "None"

\* ---------------------------------------------------------------- bounds
MaxChanges == 2       \* changes carried by the payloads of one behaviour, in all
MaxMsgs == 2          \* messages they carry under known tenants, in all
PrePopSize == 10      \* rows the store starts with, left by earlier traffic
MaxWorkerLost == 1    \* worker processes lost while executing a task
MaxFaqs == 3          \* rows of the faqs table
MaxRagCalls == 2      \* calls of the RAG functions in one behaviour
MaxVerifyCalls == 2   \* GET /webhook requests in one behaviour
MaxAdminOps == 2
MaxItems == 2
MaxAttempts == 2      \* requests to the admin API in one behaviour

\* ------------------------------------------------------ program constants
HISTORY_LIMIT == 10   \* .limit(10) of the chat history query
MAX_RETRIES == 3      \* task_max_retries, the retry limit of a Celery task
NO_KEY_MAX_RETRIES == 3   \* max_retries=3 of the retry for a missing API key
RAG_TOP_K == 3        \* top_k=3 of get_rag_response

\* ------------------------------------------------------------ input sets
Handlers == {"h1", "h2"}     \* requests in flight; each slot serves one request
Before(g, h) == g = "h1" /\ h = "h2"   \* the slots are taken in this order
TenantIds == {"t1", "t2"}
WaIds == {"w1", "w2"}
PhoneInputs == {"", "px", "p1", "p2"}
BodyKinds == {"unparseable", "nondict", "dict"}

VARIABLES
    tenants,      \* table tenants: id -> row
    messages,     \* table messages: set of rows
    nextMsgId,    \* the autoincrement sequence of messages.id
    handlers,     \* one webhook_handler execution per server slot
    jobs,         \* background tasks added by webhook_handler: jid -> task
    received,     \* changes and messages the payloads received so far carry
    delivered,    \* wa id -> times a complete message with that id was processed
    faults,       \* wa id -> times its insert failed with a non-integrity error
    userInserts,  \* rows with role user inserted by webhook_handler
    sessions,     \* request -> tenant id -> the Tenant object of its Session
    adminResponses,   \* the admin requests made, with their response status
    imports,      \* bulk FAQ imports scheduled: their items and counters
    attempts,     \* executions of a reply task followed call by call
    published,    \* process_ai_reply tasks published: jid -> arguments
    queue,        \* the broker: jid -> retries -> messages waiting
    running,      \* jid -> retries -> messages a worker holds unacknowledged
    workersLost,  \* worker processes lost so far
    execs,        \* jid -> retries -> executions of the task
    ended,        \* jid -> executions that ended SUCCESS, FAILURE; failed sends
    faqs,         \* table faqs: set of rows
    modelLoaded,  \* ai.MODEL is not None
    ragCalls,     \* the get_rag_response calls made, with what they retrieved
    retrievals,   \* the find_relevant_faqs calls made, with their results
    ragResponses, \* the responses of POST /rag/query/
    verifyToken,  \* os.environ["VERIFY_TOKEN"] once main.py is imported
    verifyResponses   \* the GET /webhook requests made, with their responses

storeVars == <<tenants, messages, nextMsgId>>
ingestVars == <<handlers, jobs, received, delivered, faults, userInserts,
               sessions>>
adminVars == <<adminResponses, imports>>
attemptVars == <<attempts>>
celeryVars == <<published, queue, running, workersLost, execs, ended>>
ragVars == <<faqs, modelLoaded, ragCalls, retrievals, ragResponses>>
verifyVars == <<verifyToken, verifyResponses>>
vars == <<storeVars, ingestVars, celeryVars, ragVars, verifyVars, adminVars,
          attemptVars>>

\* ------------------------------------------------------------- the store

\* models.Tenant: the two tenants the deployment was seeded with
InitTenants ==
    [t \in TenantIds |->
        [id |-> t,
         phone_id |-> IF t = "t1" THEN "p1" ELSE "p2",
         wh_token |-> IF t = "t1" THEN "tok1" ELSE "tok2",
         system_prompt |-> IF t = "t1" THEN "sp1" ELSE "sp2"]]

\* models.Message
MessageRow(id, t, wa, role, text) ==
    [id |-> id, tenant_id |-> t, wa_msg_id |-> wa, role |-> role, text |-> text]

\* The store as earlier traffic of tenant t1 left it: PrePopSize rows, user
\* and assistant turns alternating, the inbound rows with their own ids.
\* Tenant t2 has not been written to yet.
PrePopStore ==
    {MessageRow(i,
                "t1",
                IF i % 2 = 1 THEN "old" \o ToString(i) ELSE None,
                IF i % 2 = 1 THEN "user" ELSE "assistant",
                "old") : i \in 1..PrePopSize}

\* deps.tenant_by_phone_id: the tenant row with this phone id, or None
tenant_by_phone_id(phone_id, tn) ==
    IF \E t \in DOMAIN tn : tn[t].phone_id = phone_id
    THEN CHOOSE t \in DOMAIN tn : tn[t].phone_id = phone_id
    ELSE None

\* A Tenant object of a request's Session.  Session.commit() and
\* Session.rollback() expire every object of the session; the next read of
\* an attribute of an expired object loads the row as the store holds it
\* then.  An object that is loaded keeps the values it was loaded with.
ExpiredObject == [loaded |-> FALSE, phone_id |-> None, wh_token |-> None]

LoadedObject(tn, t) ==
    [loaded |-> TRUE, phone_id |-> tn[t].phone_id, wh_token |-> tn[t].wh_token]

\* a read of an attribute of the Tenant object t of session sess
Touched(sess, tn, t) ==
    IF sess[t].loaded THEN sess ELSE [sess EXCEPT ![t] = LoadedObject(tn, t)]

ExpireAll == [t \in TenantIds |-> ExpiredObject]

\* db.query(Message).filter_by(wa_msg_id=...).first() is not None
existing_message(msgs, wa) == \E m \in msgs : m.wa_msg_id = wa

\* (mutant) the column declared without unique=True
UniqueViolation_Absent(msgs, wa) == FALSE

\* the UNIQUE constraint on messages.wa_msg_id, checked by the INSERT
UniqueViolation(msgs, wa) == wa # None /\ \E m \in msgs : m.wa_msg_id = wa

\* ------------------------------------------------------- webhook payloads

\* msg_data of value["messages"]: "from", "text" and "id".  text.isdict is
\* whether the "text" member is a JSON object (or absent: .get gives {}); an
\* empty string stands for a missing, null or empty member.
MsgData(from, isdict, body, id) ==
    [from |-> from, text |-> [isdict |-> isdict, body |-> body], id |-> id]

\* the sender of the inbound message with this id: each message id belongs
\* to one sender, and the senders of a tenant differ
SenderOf(w) == IF w = "w2" THEN "s2" ELSE "s1"

GoodMsg(w) == MsgData(SenderOf(w), TRUE, "Hi", w)

MsgInputs ==
    {GoodMsg(w) : w \in WaIds} \cup
    {MsgData("", TRUE, "Hi", "w1"),      \* no sender
     MsgData("s1", TRUE, "", "w1"),      \* no text body
     MsgData("s1", TRUE, "Hi", ""),      \* no external id
     MsgData("s1", FALSE, "Hi", "w1")}   \* "text" is a string, not an object

NoMsg == MsgData("", TRUE, "", "")

\* not all([sender_phone, text_content, whatsapp_msg_id])
Incomplete(m) == m.from = "" \/ m.text.body = "" \/ m.id = ""

\* --------------------------------------------------- chat history assembly

\* (mutant) the history query without filter_by(tenant_id=...)
TenantMessages_Unfiltered(msgs, t) == msgs

\* .filter_by(tenant_id=tenant.id)
TenantMessages(msgs, t) == {m \in msgs : m.tenant_id = t}

\* .order_by(Message.id.desc()).limit(n).all()
RECURSIVE OrderByIdDescLimit(_, _)
OrderByIdDescLimit(S, n) ==
    IF S = {} \/ n = 0 THEN <<>>
    ELSE LET top == CHOOSE m \in S : \A o \in S : o.id <= m.id
         IN  <<top>> \o OrderByIdDescLimit(S \ {top}, n - 1)

\* [::-1]
Reversed(s) == [i \in 1..Len(s) |-> s[Len(s) + 1 - i]]

\* (mutant) the rows used as fetched, newest first
history_messages_NotReversed(msgs, t) ==
    OrderByIdDescLimit(TenantMessages(msgs, t), HISTORY_LIMIT)

\* chat_history_query.all()[::-1]
history_messages(msgs, t) ==
    Reversed(OrderByIdDescLimit(TenantMessages(msgs, t), HISTORY_LIMIT))

\* [{"role": "system", ...}] + [{"role": m.role, "content": m.text} ...]
chat_for_ai(system_prompt, hist) ==
    <<[role |-> "system", content |-> system_prompt]>> \o
    [i \in 1..Len(hist) |-> [role |-> hist[i].role, content |-> hist[i].text]]

\* ------------------------------------------------ POST /webhook, per step

IdleHandler ==
    [pc |-> "idle", status |-> 0, parsed |-> FALSE,
     chLeft |-> 0, msgLeft |-> 0, tenant |-> None, msg |-> NoMsg,
     tasks |-> {},
     nDeclared |-> 0, nWell |-> 0, nMal |-> 0,
     nDup |-> 0, nIntegrity |-> 0, nFault |-> 0, nIns |-> 0,
     shapeError |-> FALSE]

\* `continue`: on to the next message of the change, or to the next change
Continue(hr) == [hr EXCEPT !.pc = IF hr.msgLeft = 0 THEN "change" ELSE "msg",
                           !.msg = NoMsg]

\* an exception nothing catches: the request ends with HTTP 500 and the
\* background tasks added so far are never attached to a response
Crash(hr) == [hr EXCEPT !.pc = "done", !.status = 500, !.msg = NoMsg]

\* request.json() and payload.get("entry", []): the body read and parsed
Receive(body, n) ==
    CASE body = "unparseable" ->
            [IdleHandler EXCEPT !.pc = "done", !.status = 400]
      [] body = "nondict" ->
            [Crash(IdleHandler) EXCEPT !.parsed = TRUE, !.shapeError = TRUE]
      [] OTHER ->
            [IdleHandler EXCEPT !.pc = "change", !.parsed = TRUE, !.chLeft = n]

ReceiveWebhook(h) ==
    /\ handlers[h].pc = "idle"
    /\ \A g \in Handlers : Before(g, h) => handlers[g].pc # "idle"
    /\ \E body \in BodyKinds, n \in 0..(MaxChanges - received.changes) :
          LET hr == Receive(body, n)
          IN  /\ handlers' = [handlers EXCEPT ![h] = hr]
              /\ received' = [received EXCEPT !.changes = @ + hr.chLeft]
    /\ UNCHANGED <<attemptVars, adminVars, celeryVars, ragVars, verifyVars, tenants,
                   messages, nextMsgId, jobs, delivered, faults, userInserts,
                   sessions>>

\* the head of the loop over changes: phone id and tenant lookup
EnterChange(hr, phone_id, k, tn) ==
    LET tenant == tenant_by_phone_id(phone_id, tn)
        base == [hr EXCEPT !.chLeft = @ - 1]
    IN  IF phone_id = "" \/ tenant = None \/ k = 0
        THEN base
        ELSE [base EXCEPT !.tenant = tenant, !.msgLeft = k, !.pc = "msg",
                          !.nDeclared = @ + k]

NextChange(h) ==
    /\ handlers[h].pc = "change"
    /\ handlers[h].chLeft > 0
    /\ \E phone_id \in PhoneInputs, k \in 0..(MaxMsgs - received.msgs) :
          LET hr == EnterChange(handlers[h], phone_id, k, tenants)
              found == tenant_by_phone_id(phone_id, tenants)
          IN  /\ handlers' = [handlers EXCEPT ![h] = hr]
              /\ received' = [received EXCEPT
                                 !.msgs = @ + hr.nDeclared - handlers[h].nDeclared]
              /\ sessions' = IF phone_id = "" \/ found = None THEN sessions
                             ELSE [sessions EXCEPT
                                      ![h] = Touched(@, tenants, found)]
    /\ UNCHANGED <<attemptVars, adminVars, celeryVars, ragVars, verifyVars, tenants,
                   messages, nextMsgId, jobs, delivered, faults, userInserts>>

\* (mutant) an incomplete message ends the loop over the change's messages
ReadMessage_Break(hr, m, msgs) ==
    LET base == [hr EXCEPT !.msgLeft = @ - 1]
    IN  IF ~m.text.isdict THEN Crash([base EXCEPT !.shapeError = TRUE])
        ELSE IF Incomplete(m)
             THEN [base EXCEPT !.nMal = @ + 1, !.msgLeft = 0, !.pc = "change"]
        ELSE IF existing_message(msgs, m.id)
             THEN Continue([base EXCEPT !.nWell = @ + 1, !.nDup = @ + 1])
        ELSE [base EXCEPT !.nWell = @ + 1, !.pc = "insert", !.msg = m]

\* the head of the loop over messages, up to the duplicate guard
ReadMessage(hr, m, msgs) ==
    LET base == [hr EXCEPT !.msgLeft = @ - 1]
    IN  IF ~m.text.isdict THEN Crash([base EXCEPT !.shapeError = TRUE])
        ELSE IF Incomplete(m) THEN Continue([base EXCEPT !.nMal = @ + 1])
        ELSE IF existing_message(msgs, m.id)
             THEN Continue([base EXCEPT !.nWell = @ + 1, !.nDup = @ + 1])
        ELSE [base EXCEPT !.nWell = @ + 1, !.pc = "insert", !.msg = m]

NextMessage(h) ==
    /\ handlers[h].pc = "msg"
    /\ \E m \in MsgInputs :
          LET hr == ReadMessage(handlers[h], m, messages)
          IN  /\ handlers' = [handlers EXCEPT ![h] = hr]
              /\ jobs' = IF hr.status = 500
                         THEN [j \in DOMAIN jobs |->
                                 IF j \in hr.tasks
                                 THEN [jobs[j] EXCEPT !.st = "dropped"]
                                 ELSE jobs[j]]
                         ELSE jobs
              /\ delivered' = IF hr.nDup > handlers[h].nDup
                              THEN [delivered EXCEPT ![m.id] = @ + 1]
                              ELSE delivered
    /\ UNCHANGED <<attemptVars, adminVars, celeryVars, ragVars, verifyVars, tenants,
                   messages, nextMsgId, received, faults, userInserts,
                   sessions>>

\* db.add(db_message); db.commit(): what the INSERT does
InsertOutcome(msgs, wa, dbFails) ==
    IF UniqueViolation(msgs, wa) THEN "IntegrityError"
    ELSE IF dbFails THEN "Exception"
    ELSE "ok"

\* (mutant) no except clause for IntegrityError: it escapes the handler
AfterInsert_Uncaught(hr, outcome) ==
    CASE outcome = "IntegrityError" -> Crash([hr EXCEPT !.nIntegrity = @ + 1])
      [] outcome = "Exception" -> Continue([hr EXCEPT !.nFault = @ + 1])
      [] OTHER -> [hr EXCEPT !.pc = "history", !.nIns = @ + 1]

\* (mutant) the generic except clause without `continue`
AfterInsert_NoContinue(hr, outcome) ==
    CASE outcome = "IntegrityError" -> Continue([hr EXCEPT !.nIntegrity = @ + 1])
      [] outcome = "Exception" -> [hr EXCEPT !.pc = "history", !.nFault = @ + 1]
      [] OTHER -> [hr EXCEPT !.pc = "history", !.nIns = @ + 1]

\* the try/except around the insert
AfterInsert(hr, outcome) ==
    CASE outcome = "IntegrityError" -> Continue([hr EXCEPT !.nIntegrity = @ + 1])
      [] outcome = "Exception" -> Continue([hr EXCEPT !.nFault = @ + 1])
      [] OTHER -> [hr EXCEPT !.pc = "history", !.nIns = @ + 1]

SaveMessage(h) ==
    /\ handlers[h].pc = "insert"
    /\ \E dbFails \in BOOLEAN :
          LET m == handlers[h].msg
              outcome == InsertOutcome(messages, m.id, dbFails)
          IN  /\ handlers' = [handlers EXCEPT
                                 ![h] = AfterInsert(handlers[h], outcome)]
              /\ messages' = IF outcome = "ok"
                             THEN messages \cup
                                  {MessageRow(nextMsgId, handlers[h].tenant,
                                              m.id, "user", m.text.body)}
                             ELSE messages
              /\ nextMsgId' = IF outcome = "ok" THEN nextMsgId + 1 ELSE nextMsgId
              /\ userInserts' = IF outcome = "ok" THEN userInserts + 1
                                ELSE userInserts
              /\ faults' = IF outcome = "Exception"
                           THEN [faults EXCEPT ![m.id] = @ + 1] ELSE faults
              /\ delivered' = [delivered EXCEPT ![m.id] = @ + 1]
              /\ sessions' = [sessions EXCEPT ![h] = ExpireAll]
    /\ UNCHANGED <<attemptVars, adminVars, celeryVars, ragVars, verifyVars, tenants, jobs,
                   received>>

NotUsed == [phone_id |-> None, wh_token |-> None]

\* (mutant) the reply is generated where add_task stands, inside the request
ReplyTask_Inline(h, tenantRow, hist, sender, wa) ==
    [handler |-> h,
     tenant |-> tenantRow,
     chat_context |-> chat_for_ai(tenantRow.system_prompt, hist),
     sender_phone |-> sender,
     history |-> hist,
     wa |-> wa,
     st |-> "ready",
     outcome |-> None,
     used |-> NotUsed]

\* background_tasks.add_task(handle_ai_reply, tenant=..., chat_context=...).
\* The task holds the Tenant object of the session of request h; `tenant` is
\* the row as that object showed it when the task was added, `used` the
\* phone id and token the task sends with.
ReplyTask(h, tenantRow, hist, sender, wa) ==
    [handler |-> h,
     tenant |-> tenantRow,
     chat_context |-> chat_for_ai(tenantRow.system_prompt, hist),
     sender_phone |-> sender,
     history |-> hist,
     wa |-> wa,
     st |-> "added",
     outcome |-> None,
     used |-> NotUsed]

\* the history query and add_task
BuildHistory(h) ==
    /\ handlers[h].pc = "history"
    /\ LET hr == handlers[h]
           hist == history_messages(messages, hr.tenant)
           jid == Len(jobs) + 1
       IN  /\ jobs' = Append(jobs, ReplyTask(h, tenants[hr.tenant], hist,
                                             hr.msg.from, hr.msg.id))
           /\ handlers' = [handlers EXCEPT
                              ![h] = Continue([hr EXCEPT !.tasks = @ \cup {jid}])]
           /\ sessions' = [sessions EXCEPT
                              ![h] = Touched(@, tenants, hr.tenant)]
    /\ UNCHANGED <<attemptVars, adminVars, celeryVars, ragVars, verifyVars, tenants,
                   messages, nextMsgId, received, delivered, faults,
                   userInserts>>

\* return {"status": "received", ...}: the response goes out and the
\* background tasks attached to it start
ReturnReceived(h) ==
    /\ handlers[h].pc = "change"
    /\ handlers[h].chLeft = 0
    /\ handlers' = [handlers EXCEPT ![h].pc = "done", ![h].status = 200]
    /\ jobs' = [j \in DOMAIN jobs |->
                  IF j \in handlers[h].tasks
                  THEN [jobs[j] EXCEPT !.st = "ready"] ELSE jobs[j]]
    /\ UNCHANGED <<attemptVars, adminVars, celeryVars, ragVars, verifyVars, tenants,
                   messages, nextMsgId, received, delivered, faults,
                   userInserts, sessions>>

\* ----------------------------------------- handle_ai_reply (main.py task)

\* One execution of the task.  keySet is os.getenv("OPENAI_API_KEY") at that
\* moment, completionFails whether chat.completions.create raises, httpOk
\* whether the send API answers 2xx.  Every failure is logged and absorbed.
ReplyOutcome(keySet, completionFails, wh_token, httpOk) ==
    IF ~keySet THEN "no_api_key"
    ELSE IF completionFails THEN "completion_error"
    ELSE IF wh_token = "" THEN "no_token"
    ELSE IF httpOk THEN "sent"
    ELSE "http_error"

\* (mutant) the row is committed after the send call went through
Persisted_AfterSend(outcome) == outcome \in {"no_token", "sent"}

\* whether the execution reached db.commit() of the assistant row
Persisted(outcome) == outcome \in {"no_token", "sent", "http_error"}

\* what tenant.phone_id and tenant.wh_token give the task: the values of the
\* object it holds, loaded from the store now if the object is expired
TenantSeen(job, obj, tn) ==
    IF obj.loaded THEN obj ELSE LoadedObject(tn, job.tenant.id)

\* The task reads tenant.id first.  sessionOpen is whether the session of
\* the request is still open then (the dependency get_db is closed before or
\* after the background tasks, depending on the FastAPI release): an expired
\* object of a closed session cannot be read, DetachedInstanceError ends
\* the task.
handle_ai_reply(j) ==
    /\ jobs[j].st = "ready"
    /\ \E keySet \in BOOLEAN, completionFails \in BOOLEAN, httpOk \in BOOLEAN,
          sessionOpen \in BOOLEAN :
          LET h == jobs[j].handler
              t == jobs[j].tenant.id
              obj == sessions[h][t]
              seen == TenantSeen(jobs[j], obj, tenants)
              outcome == IF ~obj.loaded /\ ~sessionOpen THEN "detached_error"
                         ELSE ReplyOutcome(keySet, completionFails,
                                           seen.wh_token, httpOk)
          IN  /\ jobs' = [jobs EXCEPT
                             ![j].st = "finished",
                             ![j].outcome = outcome,
                             ![j].used = IF outcome \in {"sent", "http_error"}
                                         THEN [phone_id |-> seen.phone_id,
                                               wh_token |-> seen.wh_token]
                                         ELSE NotUsed]
              /\ sessions' = IF ~obj.loaded /\ sessionOpen
                             THEN [sessions EXCEPT ![h][t] = seen]
                             ELSE sessions
              /\ messages' = IF Persisted(outcome)
                             THEN messages \cup
                                  {MessageRow(nextMsgId, jobs[j].tenant.id, None,
                                              "assistant", "ans")}
                             ELSE messages
              /\ nextMsgId' = IF Persisted(outcome) THEN nextMsgId + 1
                              ELSE nextMsgId
    /\ UNCHANGED <<attemptVars, adminVars, celeryVars, ragVars, verifyVars, tenants,
                   handlers, received, delivered, faults, userInserts>>

\* ------------------------------------ process_ai_reply (tasks.py, Celery)

\* the arguments of process_ai_reply.delay(...); its callers are not part of
\* the sources, so a publish draws them
ReplyArgs(t, token) ==
    [tenant_id |-> t,
     tenant_phone_id |-> InitTenants[t].phone_id,
     tenant_wh_token |-> token,
     tenant_system_prompt |-> InitTenants[t].system_prompt,
     chat_context |-> <<[role |-> "system",
                         content |-> InitTenants[t].system_prompt],
                        [role |-> "user", content |-> "Hi"]>>,
     sender_phone |-> "s1",
     message_id |-> 1]

NoRetries == [r \in 0..MAX_RETRIES |-> 0]

\* A behaviour follows one task from its publication to its end: tasks
\* share nothing but the messages table.
PublishReply ==
    /\ published = <<>>
    /\ \E t \in TenantIds, token \in {"", "tok"} :
          published' = Append(published, ReplyArgs(t, token))
    /\ queue' = Append(queue, [NoRetries EXCEPT ![0] = 1])
    /\ running' = Append(running, NoRetries)
    /\ execs' = Append(execs, NoRetries)
    /\ ended' = Append(ended,
                       [SUCCESS |-> 0, FAILURE |-> 0, SEND_FAILED |-> 0])
    /\ UNCHANGED <<attemptVars, adminVars, verifyVars, storeVars, ingestVars, ragVars, workersLost>>

\* A worker receives a message.  With task_acks_late the message is not
\* acknowledged on receipt: the broker keeps it until the execution ends.
WorkerTakes(j, r) ==
    /\ queue[j][r] > 0
    /\ queue' = [queue EXCEPT ![j][r] = @ - 1]
    /\ running' = [running EXCEPT ![j][r] = @ + 1]
    /\ UNCHANGED <<attemptVars, adminVars, verifyVars, storeVars, ingestVars, ragVars, published,
                   workersLost, execs, ended>>

\* (mutant) without task_reject_on_worker_lost: the message of a lost worker
\* process is acknowledged
AfterWorkerLost_Acked(q, r) == q

\* the queue of a task after the worker process executing one of its
\* messages was lost: task_reject_on_worker_lost puts the message back
AfterWorkerLost(q, r) == [q EXCEPT ![r] = @ + 1]

\* The worker process dies while it executes the task, before or after the
\* reply was stored.
WorkerLost(j, r) ==
    /\ running[j][r] > 0
    /\ workersLost < MaxWorkerLost
    /\ workersLost' = workersLost + 1
    /\ running' = [running EXCEPT ![j][r] = @ - 1]
    /\ queue' = [queue EXCEPT ![j] = AfterWorkerLost(queue[j], r)]
    /\ \E stored \in BOOLEAN :
          /\ messages' = IF stored
                         THEN messages \cup
                              {MessageRow(nextMsgId, published[j].tenant_id,
                                          None, "assistant", "ans")}
                         ELSE messages
          /\ nextMsgId' = IF stored THEN nextMsgId + 1 ELSE nextMsgId
    /\ UNCHANGED <<attemptVars, adminVars, verifyVars, tenants, ingestVars, ragVars, published,
                   execs, ended>>

\* the body of the task up to the first exception or return
TaskOutcome(keySet, completionFails, wh_token, httpOk) ==
    IF ~keySet THEN "no_api_key"
    ELSE IF completionFails THEN "completion_error"
    ELSE IF wh_token = "" THEN "no_token"
    ELSE IF httpOk THEN "sent"
    ELSE "http_error"

\* Task.retry at request.retries = r: past the limit it raises (the given
\* exception, or MaxRetriesExceededError) and publishes nothing; otherwise it
\* publishes the task again with retries = r + 1 and raises Retry
RetryPublishes(r, max_retries) == IF r + 1 > max_retries THEN 0 ELSE 1

\* The messages one execution publishes.  self.retry for the missing key is
\* raised inside the try block: Retry and MaxRetriesExceededError are
\* Exceptions, so `except Exception` runs and calls self.retry once more.
Republished(outcome, r) ==
    CASE outcome = "no_api_key" ->
            RetryPublishes(r, NO_KEY_MAX_RETRIES) + RetryPublishes(r, MAX_RETRIES)
      [] outcome \in {"completion_error", "http_error"} ->
            RetryPublishes(r, MAX_RETRIES)
      [] OTHER -> 0

\* (mutant) an execution whose retries are exhausted is not marked failed
EndState_NoFailure(outcome, r) ==
    IF outcome \in {"no_token", "sent"} THEN "SUCCESS" ELSE "RETRY"

\* how the execution ends for the worker
EndState(outcome, r) ==
    IF outcome \in {"no_token", "sent"} THEN "SUCCESS"
    ELSE IF Republished(outcome, r) = 0 THEN "FAILURE"
    ELSE "RETRY"

\* the tally of a task after one more execution: how it ended for the
\* worker, and whether it was the send call that failed
EndedAfter(e, outcome, end) ==
    [SUCCESS |-> e.SUCCESS + (IF end = "SUCCESS" THEN 1 ELSE 0),
     FAILURE |-> e.FAILURE + (IF end = "FAILURE" THEN 1 ELSE 0),
     SEND_FAILED |-> e.SEND_FAILED + (IF outcome = "http_error" THEN 1 ELSE 0)]

\* one execution of the task, from the first statement to the
\* acknowledgment of its message
process_ai_reply(j, r) ==
    /\ running[j][r] > 0
    /\ running' = [running EXCEPT ![j][r] = @ - 1]
    /\ \E keySet \in BOOLEAN, completionFails \in BOOLEAN, httpOk \in BOOLEAN :
          LET outcome == TaskOutcome(keySet, completionFails,
                                     published[j].tenant_wh_token, httpOk)
              n == Republished(outcome, r)
              end == EndState(outcome, r)
          IN  /\ queue' = IF n = 0 THEN queue
                          ELSE [queue EXCEPT ![j][r + 1] = @ + n]
              /\ execs' = [execs EXCEPT ![j][r] = @ + 1]
              /\ ended' = [ended EXCEPT ![j] = EndedAfter(@, outcome, end)]
              /\ messages' = IF Persisted(outcome)
                             THEN messages \cup
                                  {MessageRow(nextMsgId, published[j].tenant_id,
                                              None, "assistant", "ans")}
                             ELSE messages
              /\ nextMsgId' = IF Persisted(outcome) THEN nextMsgId + 1
                              ELSE nextMsgId
    /\ UNCHANGED <<attemptVars, adminVars, verifyVars, tenants, published, ingestVars, ragVars,
                   workersLost>>

\* ------------------------- one execution of a reply task, call by call

ReplyTaskKinds == {"handle_ai_reply", "process_ai_reply"}
CompletionResults == {"raises", "no_content", "text"}

\* an execution that has just obtained its session: pc is the statement it
\* stands at, calls the outside calls and the commit it has made so far
\* retries is request.retries of the execution (0 for the background task)
NewAttempt(kind, t, token, r) ==
    [kind |-> kind, tenant_id |-> t, wh_token |-> token, retries |-> r,
     pc |-> "key", calls |-> <<>>, answer |-> None, row |-> 0,
     outcome |-> None, republished |-> 0, end |-> None]

\* The end of an execution: return, or the except clause that took it.
\* The except clauses of handle_ai_reply log and fall through to the end of
\* the function; those of process_ai_reply call self.retry.
Ended(a, outcome) ==
    [a EXCEPT
        !.pc = "ended",
        !.outcome = outcome,
        !.republished = IF a.kind = "process_ai_reply" /\ outcome # "lost"
                        THEN Republished(outcome, a.retries) ELSE 0,
        !.end = IF outcome = "lost" THEN "LOST"
                ELSE IF a.kind = "process_ai_reply"
                THEN EndState(outcome, a.retries)
                ELSE "returned"]

\* the retry counters an execution is followed with
AttemptRetries(kind) ==
    IF kind = "process_ai_reply" THEN {0, MAX_RETRIES} ELSE {0}

BeginAttempt(kind, t, token) ==
    /\ Len(attempts) < MaxAttempts
    /\ \E r \in AttemptRetries(kind) :
          attempts' = Append(attempts, NewAttempt(kind, t, token, r))
    /\ UNCHANGED <<storeVars, ingestVars, celeryVars, ragVars, verifyVars,
                   adminVars>>

\* if not os.getenv("OPENAI_API_KEY")
CheckApiKey(a) ==
    /\ attempts[a].pc = "key"
    /\ \E keySet \in BOOLEAN :
          attempts' = [attempts EXCEPT
                          ![a] = IF keySet THEN [@ EXCEPT !.pc = "completion"]
                                 ELSE Ended(@, "no_api_key")]
    /\ UNCHANGED <<storeVars, ingestVars, celeryVars, ragVars, verifyVars,
                   adminVars>>

\* (mutant) the execution goes on to the insert whatever the call gave
AfterCompletion_GoesOn(a, result) ==
    [a EXCEPT !.pc = "persist",
              !.answer = IF result = "text" THEN "ans" ELSE None]

\* chat.completions.create and response.choices[0].message.content: an
\* exception of the call, or of the use of a content that is None, leaves
\* the try block
AfterCompletion(a, result) ==
    IF result = "text" THEN [a EXCEPT !.pc = "persist", !.answer = "ans"]
    ELSE Ended(a, "completion_error")

CallCompletion(a) ==
    /\ attempts[a].pc = "completion"
    /\ \E result \in CompletionResults :
          attempts' = [attempts EXCEPT
                          ![a] = AfterCompletion(
                                     [@ EXCEPT !.calls = Append(@, "completion")],
                                     result)]
    /\ UNCHANGED <<storeVars, ingestVars, celeryVars, ragVars, verifyVars,
                   adminVars>>

\* db.add(db_ai_message); db.commit()
PersistReply(a) ==
    /\ attempts[a].pc = "persist"
    /\ \E dbFails \in BOOLEAN :
          IF dbFails
          THEN /\ attempts' = [attempts EXCEPT ![a] = Ended(@, "db_error")]
               /\ UNCHANGED <<messages, nextMsgId>>
          ELSE /\ attempts' = [attempts EXCEPT
                                  ![a].pc = "token",
                                  ![a].calls = Append(@, "commit"),
                                  ![a].row = nextMsgId]
               /\ messages' = messages \cup
                                 {MessageRow(nextMsgId, attempts[a].tenant_id,
                                             None, "assistant",
                                             attempts[a].answer)}
               /\ nextMsgId' = nextMsgId + 1
    /\ UNCHANGED <<tenants, ingestVars, celeryVars, ragVars, verifyVars,
                   adminVars>>

\* (mutant) no token check before the send call
AfterTokenCheck_Sends(a) == [a EXCEPT !.pc = "send"]

\* if not wh_token: return
AfterTokenCheck(a) ==
    IF a.wh_token = "" THEN Ended(a, "no_token") ELSE [a EXCEPT !.pc = "send"]

CheckToken(a) ==
    /\ attempts[a].pc = "token"
    /\ attempts' = [attempts EXCEPT ![a] = AfterTokenCheck(@)]
    /\ UNCHANGED <<storeVars, ingestVars, celeryVars, ragVars, verifyVars,
                   adminVars>>

\* client.post(send_url, ...) and raise_for_status()
SendReply(a) ==
    /\ attempts[a].pc = "send"
    /\ \E httpOk \in BOOLEAN :
          attempts' = [attempts EXCEPT
                          ![a] = Ended([@ EXCEPT !.calls = Append(@, "send")],
                                       IF httpOk THEN "sent" ELSE "http_error")]
    /\ UNCHANGED <<storeVars, ingestVars, celeryVars, ragVars, verifyVars,
                   adminVars>>

\* the process that runs the execution dies
AttemptLost(a) ==
    /\ attempts[a].pc # "ended"
    /\ attempts' = [attempts EXCEPT ![a] = Ended(@, "lost")]
    /\ UNCHANGED <<storeVars, ingestVars, celeryVars, ragVars, verifyVars,
                   adminVars>>

\* ------------------------------------------------------- RAG (api/ai.py)

Queries == {"", "q1"}
Embeddings == {"e1", "e2", "e3"}

\* models.FAQ; embedding is None for a row without one
FaqRow(id, t, e) ==
    [id |-> id, tenant_id |-> t, question |-> "q", answer |-> "a",
     embedding |-> e]

\* MODEL.encode(text).tolist(): a query is embedded at the origin, any other
\* text at a point of its own
Encode(text) == IF text \in Queries THEN "e0" ELSE "e<" \o text \o ">"

\* the distance of two embeddings, which lie on a line
Position(e) == CASE e = "e0" -> 0 [] e = "e1" -> 1 [] e = "e2" -> 2 [] OTHER -> 3
CosineDistance(a, b) ==
    IF Position(a) < Position(b) THEN Position(b) - Position(a)
    ELSE Position(a) - Position(b)

generate_embedding(text_content, loaded) ==
    IF ~loaded THEN "RuntimeError"
    ELSE IF text_content = "" THEN None
    ELSE Encode(text_content)

\* ORDER BY distance LIMIT top_k over a set of rows with embeddings
RECURSIVE NearestFirst(_, _, _)
NearestFirst(S, qe, k) ==
    IF S = {} \/ k = 0 THEN <<>>
    ELSE LET best == CHOOSE f \in S : \A o \in S :
                        \/ CosineDistance(f.embedding, qe)
                              < CosineDistance(o.embedding, qe)
                        \/ /\ CosineDistance(f.embedding, qe)
                                 = CosineDistance(o.embedding, qe)
                           /\ f.id <= o.id
         IN  <<best>> \o NearestFirst(S \ {best}, qe, k - 1)

\* (mutant) the query of the comment: every row with an embedding, by distance
find_relevant_faqs_AllTenants(fq, user_query, top_k, loaded) ==
    IF user_query = "" THEN [raised |-> None, rows |-> <<>>]
    ELSE LET qe == generate_embedding(user_query, loaded)
         IN  IF qe = "RuntimeError" THEN [raised |-> qe, rows |-> <<>>]
             ELSE IF qe = None THEN [raised |-> None, rows |-> <<>>]
             ELSE [raised |-> None,
                   rows |-> NearestFirst({f \in fq : f.embedding # None},
                                         qe, top_k)]

\* find_relevant_faqs: the query is embedded and the placeholder result, an
\* empty list, is returned; the table is not read
find_relevant_faqs(fq, user_query, top_k, loaded) ==
    IF user_query = "" THEN [raised |-> None, rows |-> <<>>]
    ELSE LET qe == generate_embedding(user_query, loaded)
         IN  IF qe = "RuntimeError" THEN [raised |-> qe, rows |-> <<>>]
             ELSE IF qe = None THEN [raised |-> None, rows |-> <<>>]
             ELSE [raised |-> None, rows |-> <<>>]

\* calls of the RAG functions made so far
RagCallsMade == Len(ragCalls) + Len(retrievals) + Len(ragResponses)

TopKs == {2, 3}

\* a direct call find_relevant_faqs(db, user_query, top_k)
RetrieveFaqs(user_query, top_k) ==
    /\ RagCallsMade < MaxRagCalls
    /\ LET found == find_relevant_faqs(faqs, user_query, top_k, modelLoaded)
       IN  retrievals' = Append(retrievals,
                                [query |-> user_query, top_k |-> top_k,
                                 raised |-> found.raised, rows |-> found.rows])
    /\ UNCHANGED <<attemptVars, adminVars, verifyVars, storeVars, ingestVars, celeryVars, faqs, modelLoaded,
                   ragCalls, ragResponses>>

\* the conceptual answer: a text built from the query alone
LlmAnswer(user_query) == <<"answer", user_query>>

\* the body of get_rag_response: retrieval with top_k = 3, whose exception
\* propagates, then the answer
RagResult(fq, user_query, loaded) ==
    LET found == find_relevant_faqs(fq, user_query, RAG_TOP_K, loaded)
    IN  [raised |-> found.raised, rows |-> found.rows,
         answer |-> IF found.raised = None THEN LlmAnswer(user_query)
                    ELSE <<>>]

\* a call get_rag_response(db, user_query, tenant_id)
get_rag_response(t, user_query) ==
    /\ RagCallsMade < MaxRagCalls
    /\ LET res == RagResult(faqs, user_query, modelLoaded)
       IN  ragCalls' = Append(ragCalls,
                              [tenant_id |-> t, query |-> user_query,
                               raised |-> res.raised, rows |-> res.rows,
                               answer |-> res.answer])
    /\ UNCHANGED <<attemptVars, adminVars, verifyVars, storeVars, ingestVars, celeryVars, faqs, modelLoaded,
                   retrievals, ragResponses>>

\* ------------------------------------------- POST /rag/query/ (routers/rag.py)

RagTenantInputs == TenantIds \cup {"tx"}

\* the parameters get_rag_response declares, and the keywords the router
\* passes to it
RagParameters == {"db", "user_query", "tenant_id"}
RagKeywords == {"db", "tenant_id", "user_query", "system_prompt"}

\* the call of the router: a keyword the function does not declare raises
\* TypeError before its body runs
RagCall(fq, user_query, loaded) ==
    IF RagKeywords \subseteq RagParameters
    THEN RagResult(fq, user_query, loaded)
    ELSE [raised |-> "TypeError", rows |-> <<>>, answer |-> <<>>]

\* the response of query_rag_system
RagResponse(tn, fq, loaded, tenant_id, user_query) ==
    IF tenant_id \notin DOMAIN tn
    THEN [tenant_id |-> tenant_id, query |-> user_query, status |-> 404,
          called |-> FALSE, answer |-> <<>>]
    ELSE LET res == RagCall(fq, user_query, loaded)
         IN  [tenant_id |-> tenant_id, query |-> user_query,
              status |-> CASE res.raised = None -> 200
                           [] res.raised = "RuntimeError" -> 503
                           [] OTHER -> 500,
              called |-> TRUE,
              answer |-> res.answer]

query_rag_system(tenant_id, user_query) ==
    /\ RagCallsMade < MaxRagCalls
    /\ ragResponses' = Append(ragResponses,
                              RagResponse(tenants, faqs, modelLoaded,
                                          tenant_id, user_query))
    /\ UNCHANGED <<attemptVars, adminVars, verifyVars, storeVars, ingestVars, celeryVars, faqs, modelLoaded,
                   ragCalls, retrievals>>

\* ------------------------------------------- GET /webhook (verify_webhook)

Missing == "<missing>"     \* a query parameter the request does not carry
EnvInputs == {None, "", "secret", " secret "}
ModeInputs == {Missing, "subscribe", "unsubscribe"}
TokenInputs == {Missing, "", "secret", " secret ", "wrong"}
ChallengeInputs == {Missing, "", "c1"}

\* str.strip() on the values above
Strip(v) == IF v = " secret " THEN "secret" ELSE v

\* the sanitization at import: a value that is set and not empty is stripped
SanitizedEnv(v) == IF v \notin {None, ""} THEN Strip(v) ELSE v

\* (mutant) the mode is not compared
verify_webhook_AnyMode(env, hub_mode, hub_token, hub_challenge) ==
    IF Missing \in {hub_mode, hub_token, hub_challenge}
    THEN [status |-> 422, body |-> None, media_type |-> "application/json"]
    ELSE IF env \in {None, ""}
    THEN [status |-> 500, body |-> None, media_type |-> "application/json"]
    ELSE IF hub_token = env
    THEN [status |-> 200, body |-> hub_challenge, media_type |-> "text/plain"]
    ELSE [status |-> 403, body |-> None, media_type |-> "application/json"]

\* the response to GET /webhook: the three parameters are required
\* (Query(...)), so a request without one of them is answered 422 before the
\* function runs
verify_webhook(env, hub_mode, hub_token, hub_challenge) ==
    IF Missing \in {hub_mode, hub_token, hub_challenge}
    THEN [status |-> 422, body |-> None, media_type |-> "application/json"]
    ELSE IF env \in {None, ""}
    THEN [status |-> 500, body |-> None, media_type |-> "application/json"]
    ELSE IF hub_mode = "subscribe" /\ hub_token = env
    THEN [status |-> 200, body |-> hub_challenge, media_type |-> "text/plain"]
    ELSE [status |-> 403, body |-> None, media_type |-> "application/json"]

VerifyWebhook(hub_mode, hub_token, hub_challenge) ==
    /\ Len(verifyResponses) < MaxVerifyCalls
    /\ verifyResponses' =
          Append(verifyResponses,
                 [mode |-> hub_mode, token |-> hub_token,
                  challenge |-> hub_challenge,
                  response |-> verify_webhook(verifyToken, hub_mode,
                                              hub_token, hub_challenge)])
    /\ UNCHANGED <<attemptVars, adminVars, storeVars, ingestVars, celeryVars, ragVars, verifyToken>>

\* ---------------------------------------- the admin API (routers/admin.py)

Unset == "<unset>"         \* a field the request body does not set
AdminTenantInputs == TenantIds \cup {"tx"}

\* TenantUpdate bodies (model_dump(exclude_unset=True))
TenantUpdates ==
    [phone_id : {Unset, "p2", "p9"},
     wh_token : {Unset, "tok9"},
     system_prompt : {Unset, "sp9"}]

\* setattr(db_tenant, key, value) for every field that is set
UpdatedTenant(row, upd) ==
    [row EXCEPT
        !.phone_id = IF upd.phone_id = Unset THEN @ ELSE upd.phone_id,
        !.wh_token = IF upd.wh_token = Unset THEN @ ELSE upd.wh_token,
        !.system_prompt = IF upd.system_prompt = Unset THEN @
                          ELSE upd.system_prompt]

\* (mutant) tenants.phone_id declared without unique=True
PhoneIdViolation_Absent(tn, t, phone_id) == FALSE

\* the UNIQUE constraint on tenants.phone_id, checked by the UPDATE
PhoneIdViolation(tn, t, phone_id) ==
    \E o \in DOMAIN tn : o # t /\ tn[o].phone_id = phone_id

\* PUT /admin/tenants/{tenant_id}: 404 for an unknown tenant; an
\* IntegrityError of the commit is not caught (500, nothing changes)
update_tenant(tenant_id, upd) ==
    /\ Len(adminResponses) < MaxAdminOps
    /\ LET status ==
              IF tenant_id \notin DOMAIN tenants THEN 404
              ELSE IF PhoneIdViolation(tenants, tenant_id,
                         UpdatedTenant(tenants[tenant_id], upd).phone_id)
              THEN 500
              ELSE 200
       IN  /\ tenants' = IF status = 200
                         THEN [tenants EXCEPT
                                  ![tenant_id] = UpdatedTenant(@, upd)]
                         ELSE tenants
           /\ adminResponses' = Append(adminResponses,
                                       [op |-> "update_tenant",
                                        status |-> status])
    /\ UNCHANGED <<attemptVars, imports, messages, nextMsgId, ingestVars, celeryVars, ragVars,
                   verifyVars>>

\* TenantCreate bodies: an id that is taken or new, a phone id likewise
TenantCreates ==
    [id : {"t1", "t3"}, phone_id : {"p1", "p3"}, wh_token : {"tok3"},
     system_prompt : {"sp3"}]

\* db.query(Tenant).filter(Tenant.phone_id == ...).first() is not None
PhoneIdInUse(tn, phone_id) == \E o \in DOMAIN tn : tn[o].phone_id = phone_id

\* the table with one more row
WithTenant(tn, data) ==
    [t \in DOMAIN tn \cup {data.id} |-> IF t = data.id THEN data ELSE tn[t]]

\* POST /admin/tenants/: 400 when the phone id is in use; the IntegrityError
\* of a primary key that is taken is not caught (500, no row is stored)
create_tenant(data) ==
    /\ Len(adminResponses) < MaxAdminOps
    /\ LET status ==
              IF PhoneIdInUse(tenants, data.phone_id) THEN 400
              ELSE IF data.id \in DOMAIN tenants THEN 500
              ELSE 200
       IN  /\ tenants' = IF status = 200 THEN WithTenant(tenants, data)
                         ELSE tenants
           /\ adminResponses' = Append(adminResponses,
                                       [op |-> "create_tenant",
                                        status |-> status])
    /\ UNCHANGED <<attemptVars, imports, messages, nextMsgId, ingestVars, celeryVars, ragVars,
                   verifyVars>>

\* content_to_embed of a FAQ
ContentToEmbed(question, answer) ==
    "Question: " \o question \o " Answer: " \o answer

\* `await generate_embedding(...)`: generate_embedding is a plain function, so
\* it runs first (and may raise); what it returns is not awaitable and the
\* await raises TypeError
AwaitGenerateEmbedding(text_content, loaded) ==
    IF generate_embedding(text_content, loaded) = "RuntimeError"
    THEN "RuntimeError"
    ELSE "TypeError"

\* the faqs rows of the admin scenarios: with the embedding of their text
\* and without one
AdminFaqUniverse ==
    {FaqRow(1, "t1", Encode(ContentToEmbed("q", "a"))),
     FaqRow(2, "t1", None),
     FaqRow(3, "t2", Encode(ContentToEmbed("q", "a")))}

AdminFaqIds == {1, 2}

\* FAQUpdate bodies (model_dump(exclude_unset=True))
FAQUpdates ==
    {[question |-> Unset, answer |-> Unset],
     [question |-> "q", answer |-> "a"],
     [question |-> "q2", answer |-> Unset],
     [question |-> Unset, answer |-> "a2"]}

\* setattr(db_faq, key, value) for every field that is set
UpdatedFaq(row, upd) ==
    [row EXCEPT
        !.question = IF upd.question = Unset THEN @ ELSE upd.question,
        !.answer = IF upd.answer = Unset THEN @ ELSE upd.answer]

\* needs_re_embedding: a question or answer that is set and differs
NeedsReEmbedding(row, upd) ==
    \/ upd.question # Unset /\ row.question # upd.question
    \/ upd.answer # Unset /\ row.answer # upd.answer

\* `not db_faq.embedding`: True for None; for a stored vector the driver's
\* array either counts as true or refuses a truth value (ValueError)
ArrayTruths == {"truthy", "ValueError"}
EmbeddingMissing(row, arrayTruth) ==
    IF row.embedding = None THEN "missing" ELSE arrayTruth

\* what the handler does with the row it found: the status it answers and
\* the row the store holds afterwards.  Nothing is committed before an
\* exception, so every 500 leaves the row as it was.
UpdateFaqOutcome(row, upd, loaded, arrayTruth) ==
    LET new == UpdatedFaq(row, upd)
        missing == IF NeedsReEmbedding(row, upd) THEN "skipped"
                   ELSE EmbeddingMissing(new, arrayTruth)
    IN  IF missing = "ValueError" THEN [status |-> 500, row |-> row]
        ELSE IF missing = "truthy" THEN [status |-> 200, row |-> new]
        ELSE IF AwaitGenerateEmbedding(
                    ContentToEmbed(new.question, new.answer), loaded)
                   \in {"RuntimeError", "TypeError"}
             THEN [status |-> 500, row |-> row]
        ELSE [status |-> 200,
              row |-> [new EXCEPT !.embedding =
                          Encode(ContentToEmbed(new.question, new.answer))]]

\* db.query(FAQ).filter(FAQ.id == faq_id, FAQ.tenant_id == tenant_id)
FaqsFound(fq, tenant_id, faq_id) ==
    {f \in fq : f.id = faq_id /\ f.tenant_id = tenant_id}

\* PUT /admin/tenants/{tenant_id}/faq/{faq_id}
update_faq_entry(tenant_id, faq_id, upd) ==
    /\ Len(adminResponses) < MaxAdminOps
    /\ LET found == FaqsFound(faqs, tenant_id, faq_id)
       IN  IF found = {}
           THEN /\ adminResponses' = Append(adminResponses,
                                            [op |-> "update_faq_entry",
                                             status |-> 404,
                                             changes |-> FALSE,
                                             wanted |-> None,
                                             stored |-> None])
                /\ UNCHANGED faqs
           ELSE \E arrayTruth \in ArrayTruths :
                LET row == CHOOSE f \in found : TRUE
                    out == UpdateFaqOutcome(row, upd, modelLoaded, arrayTruth)
                IN  /\ faqs' = (faqs \ {row}) \cup {out.row}
                    /\ adminResponses' =
                          Append(adminResponses,
                                 [op |-> "update_faq_entry",
                                  status |-> out.status,
                                  changes |-> NeedsReEmbedding(row, upd),
                                  wanted |-> UpdatedFaq(row, upd),
                                  stored |-> out.row])
    /\ UNCHANGED <<attemptVars, imports, storeVars, ingestVars, celeryVars, verifyVars, modelLoaded,
                   ragCalls, retrievals, ragResponses>>

\* BulkFAQImportItem values and the item lists of a request
BulkItemInputs ==
    {[question |-> "q3", answer |-> "a3"], [question |-> "q4", answer |-> "a4"]}
ItemLists == UNION {[1..n -> BulkItemInputs] : n \in 0..MaxItems}

\* the background task as add_task registers it: its arguments, the index of
\* the next item, its two counters and the ids of the rows it committed
NewImport(tenant_id, items) ==
    [tenant_id |-> tenant_id, items |-> items, pos |-> 0,
     successful |-> 0, failed |-> 0, created |-> {}]

\* POST /admin/tenants/{tenant_id}/faq/bulk-import/: 404 for an unknown tenant
\* before add_task; otherwise the task is registered and the counts of the
\* immediate response are total, 0, 0
bulk_import_faq(tenant_id, items) ==
    /\ Len(adminResponses) < MaxAdminOps
    /\ IF tenant_id \notin DOMAIN tenants
       THEN /\ adminResponses' = Append(adminResponses,
                                        [op |-> "bulk_import_faq",
                                         status |-> 404,
                                         tenant_id |-> tenant_id,
                                         import |-> 0])
            /\ UNCHANGED imports
       ELSE /\ imports' = Append(imports, NewImport(tenant_id, items))
            /\ adminResponses' = Append(adminResponses,
                                        [op |-> "bulk_import_faq",
                                         status |-> 200,
                                         tenant_id |-> tenant_id,
                                         import |-> Len(imports) + 1,
                                         total_items |-> Len(items),
                                         successful_items |-> 0,
                                         failed_items |-> 0])
    /\ UNCHANGED <<attemptVars, storeVars, ingestVars, celeryVars, ragVars, verifyVars>>

\* the body of the loop for one item: the embedding, the None check, the
\* insert.  insertFails is whether db.commit() raises.
ItemOutcome(item, loaded, insertFails) ==
    LET embedding == AwaitGenerateEmbedding(
                         ContentToEmbed(item.question, item.answer), loaded)
    IN  IF embedding \in {"RuntimeError", "TypeError"} THEN "exception"
        ELSE IF embedding = None THEN "no_embedding"
        ELSE IF insertFails THEN "exception"
        ELSE "ok"

\* faqs.id of the next row
NextFaqId(fq) ==
    IF fq = {} THEN 1
    ELSE 1 + (CHOOSE n \in {f.id : f \in fq} : \A f \in fq : f.id <= n)

\* (mutant) the except clause of the item leaves the loop
AfterItem_Stops(imp, outcome, id) ==
    IF outcome = "ok"
    THEN [imp EXCEPT !.pos = @ + 1, !.successful = @ + 1,
                     !.created = @ \cup {id}]
    ELSE [imp EXCEPT !.pos = Len(imp.items), !.failed = @ + 1]

\* the counters after one item; the loop goes on to the next item whatever
\* the outcome (`continue`, or the except clause of the item)
AfterItem(imp, outcome, id) ==
    IF outcome = "ok"
    THEN [imp EXCEPT !.pos = @ + 1, !.successful = @ + 1,
                     !.created = @ \cup {id}]
    ELSE [imp EXCEPT !.pos = @ + 1, !.failed = @ + 1]

\* process_bulk_faq_import, one item of the loop
ImportNextItem(b) ==
    /\ imports[b].pos < Len(imports[b].items)
    /\ \E insertFails \in BOOLEAN :
          LET imp == imports[b]
              item == imp.items[imp.pos + 1]
              outcome == ItemOutcome(item, modelLoaded, insertFails)
              id == NextFaqId(faqs)
          IN  /\ imports' = [imports EXCEPT ![b] = AfterItem(imp, outcome, id)]
              /\ faqs' = IF outcome = "ok"
                         THEN faqs \cup
                              {[id |-> id, tenant_id |-> imp.tenant_id,
                                question |-> item.question,
                                answer |-> item.answer,
                                embedding |-> Encode(ContentToEmbed(
                                    item.question, item.answer))]}
                         ELSE faqs
    /\ UNCHANGED <<attemptVars, adminResponses, storeVars, ingestVars, celeryVars,
                   verifyVars, modelLoaded, ragCalls, retrievals,
                   ragResponses>>

\* MessageCreate bodies: role, and wa_msg_id (optional, None by default)
MessageCreates ==
    {[role |-> "user", wa_msg_id |-> "w1"],
     [role |-> "user", wa_msg_id |-> "old1"],
     [role |-> "assistant", wa_msg_id |-> None]}

\* POST /admin/tenants/{tenant_id}/messages/: 404 for an unknown tenant; the
\* IntegrityError of the commit is not caught (500, no row is stored)
create_message(tenant_id, data) ==
    /\ Len(adminResponses) < MaxAdminOps
    /\ LET status ==
              IF tenant_id \notin DOMAIN tenants THEN 404
              ELSE IF UniqueViolation(messages, data.wa_msg_id) THEN 500
              ELSE 200
       IN  /\ messages' = IF status = 200
                          THEN messages \cup
                               {MessageRow(nextMsgId, tenant_id, data.wa_msg_id,
                                           data.role, "adm")}
                          ELSE messages
           /\ nextMsgId' = IF status = 200 THEN nextMsgId + 1 ELSE nextMsgId
           /\ adminResponses' = Append(adminResponses,
                                       [op |-> "create_message",
                                        status |-> status])
    /\ UNCHANGED <<attemptVars, imports, tenants, ingestVars, celeryVars, ragVars, verifyVars>>

\* the ids PUT is called with: the oldest row and the first row of the run
AdminMsgIds == {1, PrePopSize + 1}

\* MessageUpdate bodies (model_dump(exclude_unset=True))
MessageUpdates ==
    {[role |-> Unset, wa_msg_id |-> "w1"],
     [role |-> Unset, wa_msg_id |-> "old3"],
     [role |-> "assistant", wa_msg_id |-> None]}

\* setattr(db_message, key, value) for every field that is set
UpdatedMessage(row, upd) ==
    [row EXCEPT
        !.role = IF upd.role = Unset THEN @ ELSE upd.role,
        !.wa_msg_id = IF upd.wa_msg_id = Unset THEN @ ELSE upd.wa_msg_id]

\* db.query(Message).filter(Message.id == message_id,
\*                          Message.tenant_id == tenant_id)
MessagesFound(msgs, tenant_id, message_id) ==
    {m \in msgs : m.id = message_id /\ m.tenant_id = tenant_id}

\* PUT /admin/tenants/{tenant_id}/messages/{message_id}: 404 when the tenant
\* has no such row; the UPDATE is checked against the other rows and its
\* IntegrityError is not caught (500, the row stays as it was)
update_message(tenant_id, message_id, upd) ==
    /\ Len(adminResponses) < MaxAdminOps
    /\ LET found == MessagesFound(messages, tenant_id, message_id)
       IN  IF found = {}
           THEN /\ adminResponses' = Append(adminResponses,
                                            [op |-> "update_message",
                                             status |-> 404])
                /\ UNCHANGED messages
           ELSE LET row == CHOOSE m \in found : TRUE
                    new == UpdatedMessage(row, upd)
                    status == IF UniqueViolation(messages \ {row},
                                                 new.wa_msg_id)
                              THEN 500 ELSE 200
                IN  /\ messages' = IF status = 200
                                   THEN (messages \ {row}) \cup {new}
                                   ELSE messages
                    /\ adminResponses' = Append(adminResponses,
                                                [op |-> "update_message",
                                                 status |-> status])
    /\ UNCHANGED <<attemptVars, imports, tenants, nextMsgId, ingestVars, celeryVars, ragVars,
                   verifyVars>>

\* ------------------------------------------------------ the specifications

InitStore ==
    /\ tenants = InitTenants
    /\ messages = PrePopStore
    /\ nextMsgId = Cardinality(messages) + 1

InitIngest ==
    /\ handlers = [h \in Handlers |-> IdleHandler]
    /\ jobs = <<>>
    /\ received = [changes |-> 0, msgs |-> 0]
    /\ delivered = [w \in WaIds |-> 0]
    /\ faults = [w \in WaIds |-> 0]
    /\ userInserts = 0
    /\ sessions = [h \in Handlers |-> ExpireAll]

InitCelery ==
    /\ published = <<>>
    /\ queue = <<>>
    /\ running = <<>>
    /\ workersLost = 0
    /\ execs = <<>>
    /\ ended = <<>>

\* the rows the faqs table may hold: rows of either tenant, with or without
\* an embedding
FaqUniverse ==
    {FaqRow(1, "t1", "e1"), FaqRow(2, "t1", "e2"), FaqRow(3, "t1", "e3"),
     FaqRow(4, "t2", "e1"), FaqRow(5, "t2", None), FaqRow(6, "t1", None)}

\* the faqs table as found: up to MaxFaqs of these rows
FaqTables == {S \in SUBSET FaqUniverse : Cardinality(S) <= MaxFaqs}

InitRag ==
    /\ faqs \in FaqTables
    /\ modelLoaded \in BOOLEAN
    /\ ragCalls = <<>>
    /\ retrievals = <<>>
    /\ ragResponses = <<>>

NoVerify ==
    /\ verifyToken = "secret"
    /\ verifyResponses = <<>>
    /\ adminResponses = <<>>
    /\ imports = <<>>
    /\ attempts = <<>>

Init == InitStore /\ InitIngest /\ InitCelery /\ InitRag /\ NoVerify

\* the webhook and the background tasks of main.py
Next ==
    \/ \E h \in Handlers : ReceiveWebhook(h)
    \/ \E h \in Handlers : NextChange(h)
    \/ \E h \in Handlers : NextMessage(h)
    \/ \E h \in Handlers : SaveMessage(h)
    \/ \E h \in Handlers : BuildHistory(h)
    \/ \E h \in Handlers : ReturnReceived(h)
    \/ \E j \in DOMAIN jobs : handle_ai_reply(j)

InitWebhook ==
    /\ InitStore /\ InitIngest /\ InitCelery
    /\ faqs = {} /\ modelLoaded = TRUE
    /\ ragCalls = <<>> /\ retrievals = <<>> /\ ragResponses = <<>>
    /\ NoVerify

Spec == InitWebhook /\ [][Next]_vars

\* one webhook request and its background tasks, with tenants being updated
FirstRequest == {"h1"}

NextCapture ==
    \/ \E h \in FirstRequest : ReceiveWebhook(h)
    \/ \E h \in FirstRequest : NextChange(h)
    \/ \E h \in FirstRequest : NextMessage(h)
    \/ \E h \in FirstRequest : SaveMessage(h)
    \/ \E h \in FirstRequest : BuildHistory(h)
    \/ \E h \in FirstRequest : ReturnReceived(h)
    \/ \E j \in DOMAIN jobs : handle_ai_reply(j)
    \/ \E t \in AdminTenantInputs, upd \in TenantUpdates : update_tenant(t, upd)

SpecCapture == InitWebhook /\ [][NextCapture]_vars

\* the writers of table messages: one webhook request, its reply tasks and
\* the admin message operations
NextStore ==
    \/ \E h \in FirstRequest : ReceiveWebhook(h)
    \/ \E h \in FirstRequest : NextChange(h)
    \/ \E h \in FirstRequest : NextMessage(h)
    \/ \E h \in FirstRequest : SaveMessage(h)
    \/ \E h \in FirstRequest : BuildHistory(h)
    \/ \E h \in FirstRequest : ReturnReceived(h)
    \/ \E j \in DOMAIN jobs : handle_ai_reply(j)
    \/ \E t \in AdminTenantInputs, data \in MessageCreates :
          create_message(t, data)
    \/ \E t \in AdminTenantInputs, id \in AdminMsgIds, upd \in MessageUpdates :
          update_message(t, id, upd)

SpecStore == InitWebhook /\ [][NextStore]_vars

\* the writers of table tenants
NextTenants ==
    \/ \E data \in TenantCreates : create_tenant(data)
    \/ \E t \in AdminTenantInputs, upd \in TenantUpdates : update_tenant(t, upd)

SpecTenants == InitWebhook /\ [][NextTenants]_vars

\* the admin FAQ operations over a faqs table as found
InitFaqAdmin ==
    /\ InitStore /\ InitIngest /\ InitCelery /\ NoVerify
    /\ faqs \in SUBSET AdminFaqUniverse
    /\ modelLoaded \in BOOLEAN
    /\ ragCalls = <<>> /\ retrievals = <<>> /\ ragResponses = <<>>

NextFaqAdmin ==
    \/ \E t \in AdminTenantInputs, id \in AdminFaqIds, upd \in FAQUpdates :
          update_faq_entry(t, id, upd)
    \/ \E t \in AdminTenantInputs, items \in ItemLists :
          bulk_import_faq(t, items)
    \/ \E b \in DOMAIN imports : ImportNextItem(b)

SpecFaqAdmin == InitFaqAdmin /\ [][NextFaqAdmin]_vars

\* executions of the reply tasks, their calls interleaved
NextAttempt ==
    \/ \E kind \in ReplyTaskKinds, t \in TenantIds, token \in {"", "tok"} :
          BeginAttempt(kind, t, token)
    \/ \E a \in DOMAIN attempts : CheckApiKey(a)
    \/ \E a \in DOMAIN attempts : CallCompletion(a)
    \/ \E a \in DOMAIN attempts : PersistReply(a)
    \/ \E a \in DOMAIN attempts : CheckToken(a)
    \/ \E a \in DOMAIN attempts : SendReply(a)
    \/ \E a \in DOMAIN attempts : AttemptLost(a)

SpecAttempt == InitWebhook /\ [][NextAttempt]_vars

\* the Celery reply task and its broker
NextCelery ==
    \/ PublishReply
    \/ \E j \in DOMAIN published, r \in 0..MAX_RETRIES : WorkerTakes(j, r)
    \/ \E j \in DOMAIN published, r \in 0..MAX_RETRIES : process_ai_reply(j, r)
    \/ \E j \in DOMAIN published, r \in 0..MAX_RETRIES : WorkerLost(j, r)

\* a worker that is running takes the messages waiting and executes what it
\* took
CeleryFairness ==
    /\ WF_vars(\E j \in DOMAIN published, r \in 0..MAX_RETRIES :
                  WorkerTakes(j, r))
    /\ WF_vars(\E j \in DOMAIN published, r \in 0..MAX_RETRIES :
                  process_ai_reply(j, r))

SpecCelery == InitWebhook /\ [][NextCelery]_vars /\ CeleryFairness

\* the RAG functions over a given faqs table
NextRag ==
    \/ \E t \in TenantIds, q \in Queries : get_rag_response(t, q)
    \/ \E q \in Queries, k \in TopKs : RetrieveFaqs(q, k)
    \/ \E t \in RagTenantInputs, q \in Queries : query_rag_system(t, q)

SpecRag == Init /\ [][NextRag]_vars

\* GET /webhook under every configuration of the secret
InitVerify ==
    /\ InitStore /\ InitIngest /\ InitCelery
    /\ faqs = {} /\ modelLoaded = TRUE
    /\ ragCalls = <<>> /\ retrievals = <<>> /\ ragResponses = <<>>
    /\ verifyToken \in {SanitizedEnv(v) : v \in EnvInputs}
    /\ verifyResponses = <<>>
    /\ adminResponses = <<>>
    /\ imports = <<>>
    /\ attempts = <<>>

NextVerify ==
    \E m \in ModeInputs, t \in TokenInputs, c \in ChallengeInputs :
        VerifyWebhook(m, t, c)

SpecVerify == InitVerify /\ [][NextVerify]_vars

\* ------------------------------------------------------------------ claims

RowsWithWaId(w) == {m \in messages : m.wa_msg_id = w}

\* C1: a complete inbound message that was delivered two or more times, and
\* whose insert did not fail on every delivery, is stored exactly once.
C1_IdempotentIngestion ==
    \A w \in WaIds :
        (delivered[w] >= 2 /\ faults[w] < delivered[w])
            => Cardinality(RowsWithWaId(w)) = 1

\* the second of two sequential deliveries was skipped by the duplicate guard
C1_Redelivered ==
    \E w \in WaIds :
        /\ delivered[w] = 2 /\ faults[w] = 0
        /\ handlers["h1"].pc = "done" /\ handlers["h1"].nIns = 1
        /\ handlers["h2"].pc = "done" /\ handlers["h2"].nDup = 1
        /\ Cardinality(RowsWithWaId(w)) = 1

\* C2: when a handler reaches its insert after another handler committed the
\* same external id, the insert changes nothing, schedules nothing, and the
\* handler goes on with the next message without an error status; no external
\* id is ever stored twice.
C2_LoserSkips(h) ==
    (/\ handlers[h].pc = "insert"
     /\ handlers'[h] # handlers[h]
     /\ existing_message(messages, handlers[h].msg.id))
        => /\ messages' = messages
           /\ jobs' = jobs
           /\ handlers'[h].pc \in {"msg", "change"}
           /\ handlers'[h].status = 0
           /\ handlers'[h].nIntegrity = handlers[h].nIntegrity + 1

C2_DuplicateRace ==
    /\ [](\A w \in WaIds : Cardinality(RowsWithWaId(w)) <= 1)
    /\ [][\A h \in Handlers : C2_LoserSkips(h)]_vars

\* both requests passed the guard, one inserted, the other was refused by the
\* constraint, and both were answered 200
C2_RaceResolved ==
    \E w \in WaIds, h \in Handlers, g \in Handlers :
        /\ h # g
        /\ handlers[h].nIns = 1 /\ handlers[g].nIntegrity = 1
        /\ handlers[h].status = 200 /\ handlers[g].status = 200
        /\ delivered[w] = 2
        /\ Cardinality(RowsWithWaId(w)) = 1

\* C3 (as claimed): every request whose body parsed as JSON is answered 200.
C3_ParsedIsReceived ==
    \A h \in Handlers :
        (handlers[h].pc = "done" /\ handlers[h].parsed)
            => handlers[h].status = 200

C6_ContextOf(h) ==
    (handlers[h].pc = "history" /\ handlers'[h].pc # "history")
        => LET job == jobs'[Len(jobs')]
               hist == job.history
               ctx == job.chat_context
               T == {m \in messages : m.tenant_id = handlers[h].tenant}
               chosen == {hist[i] : i \in 1..Len(hist)}
           IN  /\ Len(jobs') = Len(jobs) + 1
               /\ ctx[1] = [role |-> "system",
                            content |-> tenants[handlers[h].tenant].system_prompt]
               /\ Len(ctx) = Len(hist) + 1
               /\ \A i \in 1..Len(hist) :
                     ctx[i + 1] = [role |-> hist[i].role, content |-> hist[i].text]
               /\ Len(hist) = IF Cardinality(T) < 10 THEN Cardinality(T) ELSE 10
               /\ chosen \subseteq T
               /\ \A i \in 1..(Len(hist) - 1) : hist[i].id < hist[i + 1].id
               /\ \A m \in T \ chosen : \A c \in chosen : m.id < c.id

C6_ChatContext == [][\A h \in Handlers : C6_ContextOf(h)]_vars

\* a task whose tenant had more than 10 rows when its context was taken
C6_WindowFull ==
    \E j \in DOMAIN jobs :
        /\ Len(jobs[j].history) = 10
        /\ Len(jobs[j].chat_context) = 11
        /\ \E m \in messages : /\ m.tenant_id = jobs[j].tenant.id
                               /\ m.id < jobs[j].history[1].id

\* C7: no context holds a row of another tenant than the task's.
C7_HistoryIsolation ==
    \A j \in DOMAIN jobs :
        \A i \in 1..Len(jobs[j].history) :
            jobs[j].history[i].tenant_id = jobs[j].tenant.id

\* a context of t1 taken when t2 owned an inbound row and an assistant row
\* that are newer than rows of that context
C7_Interleaved ==
    \E j \in DOMAIN jobs :
        /\ jobs[j].tenant.id = "t1"
        /\ \E u \in messages, a \in messages :
              /\ u.tenant_id = "t2" /\ u.role = "user"
              /\ a.tenant_id = "t2" /\ a.role = "assistant"
              /\ \E i \in 1..Len(jobs[j].history) :
                    /\ jobs[j].history[i].id > a.id
                    /\ jobs[j].history[i].id > u.id

\* C11 (as claimed): a task that sends its reply uses the phone id and the
\* access token the tenant had when the task was added.
C11_EnqueueTimeCapture ==
    \A j \in DOMAIN jobs :
        jobs[j].outcome \in {"sent", "http_error"}
            => /\ jobs[j].used.phone_id = jobs[j].tenant.phone_id
               /\ jobs[j].used.wh_token = jobs[j].tenant.wh_token

\* C12: the webhook acknowledgment is decoupled from reply generation.  A
\* task calls the completion provider and the send API only in the step that
\* finishes it; that step happens after the request that added the task has
\* answered 200, and neither that step nor any later one changes a response
\* already produced.
C12_AckDecoupled ==
    [][/\ \A j \in DOMAIN jobs :
             (jobs[j].st # "finished" /\ jobs'[j].st = "finished")
                 => /\ handlers[jobs[j].handler].pc = "done"
                    /\ handlers[jobs[j].handler].status = 200
       /\ \A h \in Handlers :
             handlers[h].pc = "done" => handlers'[h] = handlers[h]]_vars

\* C12 witness: the completion call or the send failed for a message of a
\* request, and the request's response is the 200 it had produced
C12_FailedAfterAck ==
    \E j \in DOMAIN jobs, k \in DOMAIN jobs :
        /\ jobs[j].st = "finished" /\ jobs[j].outcome = "completion_error"
        /\ jobs[k].st = "finished" /\ jobs[k].outcome = "http_error"
        /\ handlers[jobs[j].handler].status = 200
        /\ handlers[jobs[k].handler].status = 200

\* C20: in every reachable state of the store no two rows of messages share
\* a wa_msg_id that is not None, whatever webhook deliveries, reply tasks and
\* admin message creations and updates produced the state; rows without one
\* are not constrained.
C20_ExternalIdUnique ==
    \A m \in messages, n \in messages :
        (m.wa_msg_id # None /\ m.wa_msg_id = n.wa_msg_id) => m = n

\* C20 witness: an admin create or update was refused for its wa_msg_id, a
\* webhook insert lost to a row already there, and several rows have none
C20_RefusedAndUnconstrained ==
    /\ \E i \in DOMAIN adminResponses :
          /\ adminResponses[i].op \in {"create_message", "update_message"}
          /\ adminResponses[i].status = 500
    /\ handlers["h1"].nIntegrity > 0
    /\ \E m \in messages : m.id > PrePopSize /\ m.wa_msg_id = None
    /\ Cardinality({m \in messages : m.wa_msg_id = None}) > 1

\* C10 (as claimed): a task that ended without being scheduled again did not
\* fail.
C10_FailureIsRetried ==
    \A j \in DOMAIN jobs :
        jobs[j].st = "finished"
            => jobs[j].outcome \notin {"no_api_key", "completion_error",
                                       "http_error"}

\* ------------------------------------------------- claims on the Celery task

RECURSIVE SumTo(_, _)
SumTo(f, r) == IF r < 0 THEN 0 ELSE f[r] + SumTo(f, r - 1)

\* executions of task j, whatever its retry counter
Executions(j) == SumTo(execs[j], MAX_RETRIES)

\* C9 (as claimed): no task is executed more than max_retries + 1 times.
C9_RetryBound ==
    \A j \in DOMAIN published : Executions(j) <= MAX_RETRIES + 1

\* no message of task j is waiting or held, and an execution of it ended
Terminal(j) ==
    /\ j \in DOMAIN published
    /\ queue[j] = NoRetries
    /\ running[j] = NoRetries
    /\ ended[j].SUCCESS + ended[j].FAILURE >= 1

\* C14: every published task reaches a state where none of its messages is
\* waiting or held and an execution of it ended in success, or in failure
\* with the retries exhausted.
C14_JobsTerminate ==
    (published # <<>>) ~> (\A j \in DOMAIN published : Terminal(j))

\* a task that failed on every execution and was abandoned at the last retry
C14_Abandoned ==
    \E j \in DOMAIN published :
        /\ Terminal(j)
        /\ ended[j].SUCCESS = 0
        /\ execs[j][MAX_RETRIES] >= 1

\* C15: a message leaves the worker only when its execution has ended or,
\* if the worker process was lost, by going back to the queue.
C15_Settled(j, r) ==
    running'[j][r] < running[j][r]
        => \/ execs'[j][r] = execs[j][r] + 1
           \/ /\ workersLost' = workersLost + 1
              /\ queue'[j][r] = queue[j][r] + 1

C15_AckAfterCompletion ==
    [][\A j \in DOMAIN published, r \in 0..MAX_RETRIES : C15_Settled(j, r)]_vars

\* a task whose worker was lost and that was executed to success afterwards
C15_RedeliveredAfterLoss ==
    \E j \in DOMAIN published :
        /\ workersLost >= 1
        /\ ended[j].SUCCESS >= 1
        /\ Executions(j) = 1

\* ----------------------------------------------------------- claims on RAG

C16_RetrievalNeverRaises ==
    \A c \in DOMAIN retrievals :
        (retrievals[c].query = "" \/ ~modelLoaded)
            => /\ retrievals[c].raised = None
               /\ retrievals[c].rows = <<>>

\* the rows of tenant t that have an embedding
Embedded(t) == {f \in faqs : f.tenant_id = t /\ f.embedding # None}

\* C17 (as claimed): when every row of the table belongs to one tenant and
\* has an embedding, retrieval returns the top_k rows nearest to the query,
\* nearest first.
C17_RetrievalRanking ==
    \A c \in DOMAIN retrievals :
        \A t \in TenantIds :
            (/\ retrievals[c].query # ""
             /\ retrievals[c].raised = None
             /\ faqs = Embedded(t))
                => retrievals[c].rows
                      = NearestFirst(faqs, Encode(retrievals[c].query),
                                     retrievals[c].top_k)

\* C18 (as claimed): for a tenant without FAQ rows get_rag_response raises
\* nothing and returns the answer the query determines.
C18_EmptyKnowledgeBase ==
    \A c \in DOMAIN ragCalls :
        (\A f \in faqs : f.tenant_id # ragCalls[c].tenant_id)
            => /\ ragCalls[c].raised = None
               /\ ragCalls[c].answer # <<>>
               /\ \A d \in DOMAIN ragCalls :
                     ragCalls[d].query = ragCalls[c].query
                         => ragCalls[d].answer = ragCalls[c].answer

\* C19 (as claimed): an unknown tenant gets 404 and no retrieval, a failure of
\* the embedding subsystem 503, and every other request of a known tenant the
\* answer with its tenant id and query.
C19_OutcomeMapping ==
    \A c \in DOMAIN ragResponses :
        LET r == ragResponses[c]
        IN  IF r.tenant_id \notin DOMAIN tenants
            THEN r.status = 404 /\ ~r.called
            ELSE IF r.query # "" /\ ~modelLoaded
            THEN r.status = 503
            ELSE r.status = 200 /\ r.answer = LlmAnswer(r.query)

\* ------------------------------------------------ claims on GET /webhook

\* C13 (as claimed): without a secret the answer is 500 whatever the query
\* parameters; with one it is the challenge exactly when the mode is
\* subscribe and the token is the secret, and 403 in every other case.
C13_VerificationAsClaimed ==
    \A c \in DOMAIN verifyResponses :
        LET r == verifyResponses[c]
        IN  IF verifyToken \in {None, ""}
            THEN r.response.status = 500
            ELSE IF r.mode = "subscribe" /\ r.token = verifyToken
            THEN /\ r.response.status = 200
                 /\ r.response.body = r.challenge
                 /\ r.response.media_type = "text/plain"
            ELSE r.response.status = 403

\* C13 (amended): a request without one of the three parameters is answered
\* 422; for a request that carries all three the answer is as claimed.
C13_Verification ==
    \A c \in DOMAIN verifyResponses :
        LET r == verifyResponses[c]
        IN  IF Missing \in {r.mode, r.token, r.challenge}
            THEN r.response.status = 422
            ELSE IF verifyToken \in {None, ""}
            THEN r.response.status = 500
            ELSE IF r.mode = "subscribe" /\ r.token = verifyToken
            THEN /\ r.response.status = 200
                 /\ r.response.body = r.challenge
                 /\ r.response.media_type = "text/plain"
            ELSE r.response.status = 403

\* the challenge was returned to one request, and a request with the right
\* token and another mode was refused
C13_ChallengeAndRefusal ==
    /\ \E c \in DOMAIN verifyResponses :
          /\ verifyResponses[c].response.status = 200
          /\ verifyResponses[c].response.body = "c1"
    /\ \E c \in DOMAIN verifyResponses :
          /\ verifyResponses[c].mode = "unsubscribe"
          /\ verifyResponses[c].token = verifyToken
          /\ verifyResponses[c].challenge # Missing
          /\ verifyResponses[c].response.status = 403

\* C21: in every reachable state no two tenants have the same phone id,
\* under any sequence of create_tenant and update_tenant calls; a
\* create_tenant with a phone id that is in use is answered 400 and leaves
\* table tenants unchanged.
C21_PhoneIdUnique ==
    /\ [](\A t \in DOMAIN tenants, o \in DOMAIN tenants :
             tenants[t].phone_id = tenants[o].phone_id => t = o)
    /\ [][\A data \in TenantCreates :
             (create_tenant(data) /\ PhoneIdInUse(tenants, data.phone_id))
                 => /\ adminResponses'[Len(adminResponses')].status = 400
                    /\ tenants' = tenants]_vars

\* C21 witness: a third tenant was created, and a create_tenant with a phone
\* id in use was answered 400
C21_CreatedAndRejected ==
    /\ "t3" \in DOMAIN tenants
    /\ \E i \in DOMAIN adminResponses :
          /\ adminResponses[i].op = "create_tenant"
          /\ adminResponses[i].status = 400

CallAt(a, call) ==
    IF \E i \in DOMAIN attempts[a].calls : attempts[a].calls[i] = call
    THEN CHOOSE i \in DOMAIN attempts[a].calls : attempts[a].calls[i] = call
    ELSE 0

\* the assistant rows stored since the start
RepliesStored == {m \in messages : m.id > PrePopSize /\ m.role = "assistant"}

\* C24: within one execution the completion call comes first; the assistant
\* row is committed only after the completion call returned text; the send
\* call is made only after that commit; an execution whose completion call
\* failed has stored no row and sent nothing.
C24_StepOrdering ==
    /\ \A a \in DOMAIN attempts :
          /\ CallAt(a, "commit") > 0
                => /\ CallAt(a, "completion") = 1
                   /\ CallAt(a, "commit") = 2
                   /\ attempts[a].answer = "ans"
                   /\ \E m \in RepliesStored :
                         m.id = attempts[a].row /\ m.text = "ans"
          /\ CallAt(a, "send") > 0
                => CallAt(a, "commit") = 2 /\ CallAt(a, "send") = 3
          /\ attempts[a].outcome = "completion_error"
                => /\ attempts[a].calls = <<"completion">>
                   /\ attempts[a].row = 0
    /\ Cardinality(RepliesStored)
          = Cardinality({a \in DOMAIN attempts : CallAt(a, "commit") > 0})

\* C24 witness: one execution failed at the completion call and left nothing,
\* another one sent its reply after the commit
C24_FailedAndSent ==
    \E a \in DOMAIN attempts, b \in DOMAIN attempts :
        /\ attempts[a].outcome = "completion_error"
        /\ attempts[b].outcome = "sent"
        /\ attempts[a].kind # attempts[b].kind
        /\ Cardinality(RepliesStored) = 1

\* C25 (as claimed): the context of a task holds no inbound row of another
\* sender than the one the task replies to.
C25_PerSenderHistory ==
    \A j \in DOMAIN jobs :
        \A i \in 1..Len(jobs[j].history) :
            jobs[j].history[i].role = "user"
                => SenderOf(jobs[j].history[i].wa_msg_id) = jobs[j].sender_phone

\* the inbound row of the task is the oldest row its tenant has
FirstOfTenant(j) ==
    \E m \in messages :
        /\ m.wa_msg_id = jobs[j].wa
        /\ \A o \in messages : o.tenant_id = m.tenant_id => o.id >= m.id

\* C26 (as claimed): the context of a task ends with the inbound message the
\* task was added for, and the context for the first message of a tenant has
\* two elements, whatever other requests and tasks insert meanwhile.
C26_TriggerIsLast ==
    \A j \in DOMAIN jobs :
        LET hist == jobs[j].history
        IN  /\ Len(hist) > 0
            /\ hist[Len(hist)].wa_msg_id = jobs[j].wa
            /\ FirstOfTenant(j) => Len(jobs[j].chat_context) = 2

\* C27: a task whose send call failed k times and then went through, every
\* execution having reached the send call, leaves k + 1 assistant rows; the
\* assistant rows of a task are never more than the executions started for
\* it (those that ended and those lost with their worker).
C27_RepliesPerJob ==
    \A j \in DOMAIN published :
        /\ Cardinality(RepliesStored) <= Executions(j) + workersLost
        /\ (/\ ended[j].SUCCESS = 1
            /\ workersLost = 0
            /\ Executions(j) = ended[j].SEND_FAILED + 1)
              => Cardinality(RepliesStored) = ended[j].SEND_FAILED + 1

\* C27 witness: the send call failed twice and then went through
C27_ThreeReplies ==
    \E j \in DOMAIN published :
        /\ Terminal(j)
        /\ ended[j].SUCCESS = 1
        /\ ended[j].SEND_FAILED = 2
        /\ Executions(j) = 3
        /\ Cardinality(RepliesStored) = 3

\* C28 (as claimed): a failed execution publishes one retry, so a task is
\* executed at most once with each value of its retry counter.
C28_NoRetryFanOut ==
    \A j \in DOMAIN published :
        \A r \in 0..MAX_RETRIES :
            /\ execs[j][r] <= 1
            /\ queue[j][r] + running[j][r] + execs[j][r] <= 1 + workersLost

\* C29: an execution whose token is empty makes no send call; once it has
\* committed the assistant row it ends as completed (SUCCESS for
\* process_ai_reply, a plain return for handle_ai_reply), with the row stored
\* and no retry published.
C29_EmptyToken ==
    \A a \in DOMAIN attempts :
        attempts[a].wh_token = ""
            => /\ CallAt(a, "send") = 0
               /\ attempts[a].outcome \notin {"sent", "http_error"}
               /\ (/\ attempts[a].pc = "ended"
                   /\ CallAt(a, "commit") > 0
                   /\ attempts[a].outcome # "lost")
                     => /\ attempts[a].outcome = "no_token"
                        /\ attempts[a].end
                              = IF attempts[a].kind = "process_ai_reply"
                                THEN "SUCCESS" ELSE "returned"
                        /\ attempts[a].republished = 0
                        /\ \E m \in RepliesStored : m.id = attempts[a].row

\* C29 witness: such an execution has ended, its reply stored and not sent
C29_StoredNotSent ==
    \E a \in DOMAIN attempts :
        /\ attempts[a].kind = "process_ai_reply"
        /\ attempts[a].wh_token = ""
        /\ attempts[a].outcome = "no_token"
        /\ attempts[a].calls = <<"completion", "commit">>

\* C30 (as claimed): every task webhook_handler adds is run, once: none is
\* discarded, and the one execution ends with its failure absorbed.
C30_RunsExactlyOnce ==
    \A j \in DOMAIN jobs :
        /\ jobs[j].st \in {"added", "ready", "finished"}
        /\ handlers[jobs[j].handler].pc = "done" => jobs[j].st # "added"
        /\ jobs[j].st = "finished"
              => jobs[j].outcome \in {"no_api_key", "completion_error",
                                      "no_token", "sent", "http_error",
                                      "detached_error"}

====
